---- MODULE Spec2Model ----
\* A model of spotify_playlist.py: the matching engine (score_track_match,
\* _execute_search, _find_best_match, search_track), the playlist assembler
\* (_add_tracks_in_batches, create_playlist) and main's orchestration loop.
\*
\* Text is a sequence of one-character strings, so that lower-casing, substring
\* search and difflib's matching blocks are computed, not assumed.
\* A score is an exact rational <<numerator, denominator>> with a positive
\* denominator (the code computes it in IEEE doubles).
EXTENDS Integers, Sequences, FiniteSets, TLC

\* ------------------------------------------------------------------ bounds

\* Longest input list main is run on.
MaxTracks == 2

\* Longest item list one search response carries when search_track is run on
\* its own (the code asks for up to 10).
MaxResults == 2

\* Longest item list one search response carries during a whole run of main.
MaxRunResults == 1

\* Longest track_ids list create_playlist is called with on its own.
MaxIds == 250

\* ------------------------------------------------------------------ text

UpperToLower ==
    ("A" :> "a") @@ ("B" :> "b") @@ ("C" :> "c") @@ ("D" :> "d") @@ ("E" :> "e")
    @@ ("F" :> "f") @@ ("G" :> "g") @@ ("H" :> "h") @@ ("I" :> "i") @@ ("J" :> "j")
    @@ ("K" :> "k") @@ ("L" :> "l") @@ ("M" :> "m") @@ ("N" :> "n") @@ ("O" :> "o")
    @@ ("P" :> "p") @@ ("Q" :> "q") @@ ("R" :> "r") @@ ("S" :> "s") @@ ("T" :> "t")
    @@ ("U" :> "u") @@ ("V" :> "v") @@ ("W" :> "w") @@ ("X" :> "x") @@ ("Y" :> "y")
    @@ ("Z" :> "z")

\* Mutant of Lower: the text is compared as it is.
Lower_Identity(s) == s

\* str.lower() on ASCII text.
Lower(s) ==
    [i \in 1..Len(s) |-> IF s[i] \in DOMAIN UpperToLower THEN UpperToLower[s[i]] ELSE s[i]]

\* `keyword in text`: keyword is a contiguous substring of text.
Contains(text, keyword) ==
    \E i \in 0..(Len(text) - Len(keyword)) :
        \A k \in 1..Len(keyword) : text[i + k] = keyword[k]

kw_karaoke == <<"k","a","r","a","o","k","e">>
kw_instrumental == <<"i","n","s","t","r","u","m","e","n","t","a","l">>
kw_backing_track == <<"b","a","c","k","i","n","g"," ","t","r","a","c","k">>
kw_cover == <<"c","o","v","e","r">>
kw_tribute == <<"t","r","i","b","u","t","e">>
kw_in_the_style_of == <<"i","n"," ","t","h","e"," ","s","t","y","l","e"," ","o","f">>
kw_made_famous_by == <<"m","a","d","e"," ","f","a","m","o","u","s"," ","b","y">>
kw_originally_performed ==
    <<"o","r","i","g","i","n","a","l","l","y"," ","p","e","r","f","o","r","m","e","d">>
kw_sing_along == <<"s","i","n","g"," ","a","l","o","n","g">>
kw_minus_one == <<"m","i","n","u","s"," ","o","n","e">>

KARAOKE_KEYWORDS ==
    { kw_karaoke, kw_instrumental, kw_backing_track, kw_cover, kw_tribute,
      kw_in_the_style_of, kw_made_famous_by, kw_originally_performed,
      kw_sing_along, kw_minus_one }

\* ------------------------------------------------- difflib.SequenceMatcher

\* Length of the common run of a from i and b from j (1-based), inside
\* a[..ahi] and b[..bhi].
RECURSIVE RunLen(_, _, _, _, _, _)
RunLen(a, b, i, j, ahi, bhi) ==
    IF i > ahi \/ j > bhi \/ a[i] # b[j] THEN 0
    ELSE 1 + RunLen(a, b, i + 1, j + 1, ahi, bhi)

\* SequenceMatcher.find_longest_match over a[alo..ahi], b[blo..bhi] (1-based,
\* inclusive), with no junk (isjunk is None, and autojunk only acts on
\* sequences of 200 or more characters): the longest common block; of those the one
\* starting earliest in a; of those the one starting earliest in b.
\* <<i, j, k>>, k = 0 when nothing matches.
find_longest_match(a, b, alo, ahi, blo, bhi) ==
    LET blocks == { <<i, j, RunLen(a, b, i, j, ahi, bhi)>> : i \in alo..ahi, j \in blo..bhi }
        Better(x, y) ==
            \/ x[3] > y[3]
            \/ x[3] = y[3] /\ x[1] < y[1]
            \/ x[3] = y[3] /\ x[1] = y[1] /\ x[2] <= y[2]
    IN  IF blocks = {} THEN <<alo, blo, 0>>
        ELSE CHOOSE x \in blocks : \A y \in blocks : Better(x, y)

\* Total size of SequenceMatcher.get_matching_blocks: the longest block, then
\* the same to its left and to its right.
RECURSIVE MatchingSize(_, _, _, _, _, _)
MatchingSize(a, b, alo, ahi, blo, bhi) ==
    IF alo > ahi \/ blo > bhi THEN 0
    ELSE LET m == find_longest_match(a, b, alo, ahi, blo, bhi)
         IN  IF m[3] = 0 THEN 0
             ELSE m[3]
                  + MatchingSize(a, b, alo, m[1] - 1, blo, m[2] - 1)
                  + MatchingSize(a, b, m[1] + m[3], ahi, m[2] + m[3], bhi)

\* SequenceMatcher(None, a, b).ratio() as a fraction: 2*M/T, and 1 when both
\* are empty.
Ratio(a, b) ==
    IF Len(a) + Len(b) = 0 THEN <<1, 1>>
    ELSE <<2 * MatchingSize(a, b, 1, Len(a), 1, Len(b)), Len(a) + Len(b)>>

\* ---------------------------------------------------------------- scores

\* Comparison and arithmetic on fractions with positive denominators.
Gt(x, y) == x[1] * y[2] > y[1] * x[2]

Eq(x, y) == x[1] * y[2] = y[1] * x[2]

Plus(x, y) == <<x[1] * y[2] + y[1] * x[2], x[2] * y[2]>>

Times(x, n) == <<x[1] * n, x[2]>>

Zero == <<0, 1>>

\* ------------------------------------------------------- catalog payloads

\* A field of a JSON payload: missing, null, or holding a value.
Absent == [tag |-> "absent"]

Null == [tag |-> "null"]

Val(x) == [tag |-> "val", v |-> x]

\* The track dictionary the tests build: every field present.
mock_spotify_track(name, artist_text, album, popularity, track_id) ==
    [ id |-> track_id,
      name |-> name,
      artists |-> Val(<< [name |-> Val(artist_text)] >>),
      album |-> Val([name |-> Val(album)]),
      popularity |-> Val(popularity) ]

\* ------------------------------------------------------- score_track_match

ArtistWeight == 40

TitleWeight == 30

PopularityDivisor == 10

KaraokePenalty == 50

\* str(None), as an f-string renders a null album name.
NoneText == <<"N","o","n","e">>

Space == <<" ">>

\* track.get("artists") or []
ArtistsOf(track) ==
    IF track.artists.tag = "val" THEN track.artists.v ELSE <<>>

\* artists[0].get("name", "") if artists else "": a text, or Null for a null name.
ArtistNameOf(track) ==
    LET artists == ArtistsOf(track)
    IN  IF artists = <<>> THEN Val(<<>>)
        ELSE IF artists[1].name.tag = "absent" THEN Val(<<>>)
        ELSE artists[1].name

\* track.get("album", {}).get("name", ""): raises on a null album.
AlbumRaises(track) == track.album.tag = "null"

AlbumNameOf(track) ==
    IF track.album.tag = "absent" THEN Val(<<>>)
    ELSE IF track.album.v.name.tag = "absent" THEN Val(<<>>)
    ELSE track.album.v.name

\* track.get("popularity", 0)
PopularityOf(track) ==
    IF track.popularity.tag = "absent" THEN Val(0) ELSE track.popularity

\* f"{track_name} {artist_name} {album_name}".lower()
combined_text(track_name, artist_name, album_name) ==
    Lower(track_name \o Space \o artist_name \o Space
          \o (IF album_name.tag = "val" THEN album_name.v ELSE NoneText))

\* any(keyword in combined_text for keyword in KARAOKE_KEYWORDS)
HasKaraokeKeyword(text) == \E keyword \in KARAOKE_KEYWORDS : Contains(text, keyword)

\* artist_ratio * 40 + title_ratio * 30 + popularity / 10, before the penalty.
UnpenalizedScore(track_name, artist_name, popularity, expected_title, expected_artist) ==
    Plus(Plus(Times(Ratio(Lower(expected_artist), Lower(artist_name)), ArtistWeight),
              Times(Ratio(Lower(expected_title), Lower(track_name)), TitleWeight)),
         <<popularity, PopularityDivisor>>)

\* Mutant of ApplyPenalty: 50 off for every keyword present.
ApplyPenalty_PerKeyword(score, text) ==
    Plus(score, << 0 - KaraokePenalty
                      * Cardinality({keyword \in KARAOKE_KEYWORDS : Contains(text, keyword)}), 1 >>)

\* The penalty step: score -= 50 when a keyword is present.
ApplyPenalty(score, text) ==
    IF HasKaraokeKeyword(text) THEN Plus(score, <<0 - KaraokePenalty, 1>>) ELSE score

\* score_track_match: [raised |-> TRUE] when the payload makes it raise
\* (null album: AttributeError; null artist name: AttributeError on .lower();
\* null popularity: TypeError), else the (score, track_name, artist_name) tuple.
score_track_match(track, expected_title, expected_artist) ==
    LET track_name == track.name
        artist_name == ArtistNameOf(track)
        popularity == PopularityOf(track)
    IN  IF AlbumRaises(track) \/ artist_name.tag # "val" \/ popularity.tag # "val"
        THEN [raised |-> TRUE]
        ELSE [ raised |-> FALSE,
               score |-> ApplyPenalty(
                   UnpenalizedScore(track_name, artist_name.v, popularity.v,
                                    expected_title, expected_artist),
                   combined_text(track_name, artist_name.v, AlbumNameOf(track))),
               track_name |-> track_name,
               artist_name |-> artist_name.v ]

\* ------------------------------------------------------- inputs and catalog

T_Song == <<"S","o","n","g">>

T_Queen == <<"Q","u","e","e","n">>

T_SongKaraoke == <<"S","o","n","g"," ","(","K","a","r","a","o","k","e",")">>

T_Via == <<"V","i","a">>

T_Abba == <<"A","b","b","a">>

T_Hits == <<"H","i","t","s">>

T_Live == <<"L","i","v","e">>

\* The (title, artist) pairs parse_tsv can hand to main: both fields non-empty.
Queries ==
    { [title |-> T_Song, artist |-> T_Queen],
      [title |-> T_Via, artist |-> T_Abba] }

\* The tracks the catalog service can return: an exact match of the first
\* query, its twin under another id, a karaoke version by the same artist, and
\* an unpopular exact match of the second query sharing no letter with the first.
Catalog ==
    { mock_spotify_track(T_Song, T_Queen, T_Hits, 80, "t1"),
      mock_spotify_track(T_Song, T_Queen, T_Live, 80, "t2"),
      mock_spotify_track(T_SongKaraoke, T_Queen, T_Hits, 50, "t3"),
      mock_spotify_track(T_Via, T_Abba, T_Hits, 0, "t4") }

\* score_track_match(track, title, artist) as _find_best_match calls it: the
\* scores of the catalog's tracks against the input queries are computed once.
ScoreMemo ==
    [ x \in { <<t, q.title, q.artist>> : t \in Catalog, q \in Queries }
        |-> score_track_match(x[1], x[2], x[3]) ]

ScoreOf(track, title, artist) ==
    IF <<track, title, artist>> \in DOMAIN ScoreMemo
    THEN ScoreMemo[<<track, title, artist>>]
    ELSE score_track_match(track, title, artist)

\* -------------------------------------------------------- _find_best_match

\* The (None, 0, None, None) result.
EmptyMatch ==
    [track_id |-> Null, score |-> Zero, matched_title |-> Null, matched_artist |-> Null]

\* Mutant of Exceeds: `score >= best_score`.
ExceedsOrTies(score, best_score) == ~Gt(best_score, score)

\* Mutant of Exceeds: `score > 0`, the running best is not compared.
ExceedsZero(score, best_score) == Gt(score, Zero)

\* `score > best_score`
Exceeds(score, best_score) == Gt(score, best_score)

\* The loop of _find_best_match from candidate k on, carrying best_score and
\* best_match (Null while None); [raised |-> TRUE] when scoring a candidate raises.
RECURSIVE FindBestLoop(_, _, _, _, _, _)
FindBestLoop(cands, title, artist, k, best_score, best_match) ==
    IF k > Len(cands) THEN [raised |-> FALSE, best_match |-> best_match]
    ELSE LET r == ScoreOf(cands[k], title, artist)
         IN  IF r.raised THEN [raised |-> TRUE]
             ELSE IF Exceeds(r.score, best_score)
             THEN FindBestLoop(cands, title, artist, k + 1, r.score,
                      Val([ track_id |-> Val(cands[k].id),
                            score |-> r.score,
                            matched_title |-> Val(r.track_name),
                            matched_artist |-> Val(r.artist_name) ]))
             ELSE FindBestLoop(cands, title, artist, k + 1, best_score, best_match)

\* _find_best_match: best_match if best_match else (None, 0, None, None).
find_best_match(cands, title, artist) ==
    LET r == FindBestLoop(cands, title, artist, 1, Zero, Null)
    IN  IF r.raised THEN [raised |-> TRUE]
        ELSE [ raised |-> FALSE,
               result |-> IF r.best_match.tag = "val" THEN r.best_match.v ELSE EmptyMatch ]

\* ------------------------------------------------------------ search_track

S_track == <<"t","r","a","c","k",":">>

S_artist == <<" ","a","r","t","i","s","t",":">>

\* Mutant of queries: the free-text query is issued first.
queries_swapped(title, artist) ==
    << title \o Space \o artist,
       S_track \o title \o S_artist \o artist >>

\* The two query strings, in the order they are issued.
queries(title, artist) ==
    << S_track \o title \o S_artist \o artist,
       title \o Space \o artist >>

\* The limit every search asks for.
SearchLimit == 10

\* The keyword arguments of sp.search(q=query, type="track", limit=10).
SearchCall(query) ==
    [op |-> "search", q |-> query, type |-> "track", limit |-> SearchLimit]

\* What _execute_search returns for a response: its items, or [] on any error.
execute_search_items(resp) == IF resp.kind = "ok" THEN resp.items ELSE <<>>

\* Mutant of execute_search_diag: only a SpotifyException is reported.
execute_search_diag_spotify_only(resp, title) ==
    IF resp.kind = "spotify_error"
    THEN << [line |-> "Spotify API error searching for", title |-> title] >>
    ELSE <<>>

\* What _execute_search writes to stderr for a response.
execute_search_diag(resp, title) ==
    IF resp.kind = "spotify_error"
    THEN << [line |-> "Spotify API error searching for", title |-> title] >>
    ELSE IF resp.kind = "error"
    THEN << [line |-> "Error searching for", title |-> title] >>
    ELSE <<>>

\* Mutant of IsNew: the seen_ids test is dropped.
IsNew_Always(track, seen) == TRUE

\* if track["id"] not in seen_ids
IsNew(track, seen) == track.id \notin seen

\* The inner loop of search_track over one query's items, from item k on:
\* the candidates and seen_ids it leaves.
RECURSIVE AddCandidates(_, _, _, _)
AddCandidates(items, k, cands, seen) ==
    IF k > Len(items) THEN [candidates |-> cands, seen_ids |-> seen]
    ELSE IF IsNew(items[k], seen)
    THEN AddCandidates(items, k + 1, Append(cands, items[k]), seen \cup {items[k].id})
    ELSE AddCandidates(items, k + 1, cands, seen)

\* search_track after both queries: the empty result without candidates, else
\* _find_best_match.
search_track_result(cands, title, artist) ==
    IF cands = <<>> THEN [raised |-> FALSE, result |-> EmptyMatch]
    ELSE find_best_match(cands, title, artist)

\* Sequences over S of length lo..hi.
SeqsOf(S, lo, hi) == UNION { [1..n -> S] : n \in lo..hi }

\* What one sp.search call can do: return items, raise SpotifyException, or
\* raise any other exception.
SearchResponses(max_items) ==
    { [kind |-> "ok", items |-> items] : items \in SeqsOf(Catalog, 0, max_items) }
    \cup { [kind |-> "spotify_error"], [kind |-> "error"] }

\* What a playlist call can do: succeed, raise SpotifyException with status
\* 403 or another status, or raise any other exception.
ApiOutcomes == { "ok", "spotify_403", "spotify_error", "error" }

IsSpotifyException(outcome) == outcome \in { "spotify_403", "spotify_error" }

\* The playlist record user_playlist_create returns.
NewPlaylist == [id |-> "p1", external_urls |-> [spotify |-> "https://open.spotify.com/playlist/p1"]]

\* Python truthiness of an optional identifier or URL.
Truthy(x) == x.tag = "val" /\ x.v # ""

\* ------------------------------------------------------------------- state

VARIABLES
    service_max,  \* the longest item list the catalog service returns
    tracks,       \* main: the parsed input list
    dry_run,      \* main: args.dry_run
    pc,           \* where the run is
    idx,          \* main: how many TrackQueries the loop has processed
    found_ids,    \* main: found_ids
    not_found,    \* main: not_found
    match,        \* main: what the last search_track call returned
    history,      \* what search_track returned for each processed TrackQuery
    query_no,     \* search_track: position in `queries` of the next query
    candidates,   \* search_track: candidates
    seen_ids,     \* search_track: seen_ids
    responses,    \* what sp.search did for each query of this search_track call
    sp_calls,     \* every call made on the client `sp`, in order (a playlist
                  \* call with what it did; a search's response is in `responses`)
    stderr,       \* diagnostics written while handling the current TrackQuery,
                  \* or during the playlist phase
    stdout,       \* what main printed (progress lines of --verbose left out)
    track_ids,    \* create_playlist: track_ids
    playlist,     \* create_playlist: the created playlist record, Null before
    batch_i,      \* _add_tracks_in_batches: i
    tracks_added, \* _add_tracks_in_batches: tracks_added
    url,          \* what create_playlist returned; Absent until it returns
    arg,          \* the arguments of a function called on its own
    ret           \* what that call did; Null before it

vars ==
    << service_max, tracks, dry_run, pc, idx, found_ids, not_found, match, history, query_no, candidates,
       seen_ids, responses, sp_calls, stderr, stdout, track_ids, playlist, batch_i,
       tracks_added, url, arg, ret >>

searchVars == << query_no, candidates, seen_ids, responses >>

callVars == << arg, ret >>

mainVars == << service_max, tracks, dry_run, idx, found_ids, not_found, match, history, callVars >>

playlistVars == << track_ids, playlist, batch_i, tracks_added, url >>

\* The TrackQuery the loop is at.
Current == tracks[idx + 1]

\* main before its loop: lists empty, nothing called yet.
Init ==
    /\ service_max = MaxRunResults
    /\ tracks \in SeqsOf(Queries, 1, MaxTracks)
    /\ dry_run \in BOOLEAN
    /\ pc = "loop"
    /\ idx = 0
    /\ found_ids = <<>>
    /\ not_found = <<>>
    /\ match = EmptyMatch
    /\ history = <<>>
    /\ query_no = 1
    /\ candidates = <<>>
    /\ seen_ids = {}
    /\ responses = <<>>
    /\ sp_calls = <<>>
    /\ stderr = <<>>
    /\ stdout = << [line |-> "Searching for tracks", n |-> Len(tracks)] >>
    /\ track_ids = <<>>
    /\ playlist = Null
    /\ batch_i = 0
    /\ tracks_added = 0
    /\ url = Absent
    /\ arg = Null
    /\ ret = Null

\* main's loop takes the next TrackQuery and calls search_track, which starts
\* with no candidates.
CallSearchTrack ==
    /\ pc = "loop"
    /\ idx < Len(tracks)
    /\ pc' = "search"
    /\ query_no' = 1
    /\ candidates' = <<>>
    /\ seen_ids' = {}
    /\ responses' = <<>>
    /\ stderr' = <<>>
    /\ UNCHANGED << mainVars, sp_calls, stdout, playlistVars >>

\* One pass of search_track's loop over `queries`: _execute_search issues the
\* query, and its items are appended unless their id was seen.
ExecuteSearch ==
    /\ pc = "search"
    /\ \E resp \in SearchResponses(service_max) :
        LET query == queries(Current.title, Current.artist)[query_no]
            added == AddCandidates(execute_search_items(resp), 1, candidates, seen_ids)
        IN  /\ sp_calls' = Append(sp_calls, SearchCall(query))
            /\ responses' = Append(responses, resp)
            /\ stderr' = stderr \o execute_search_diag(resp, Current.title)
            /\ candidates' = added.candidates
            /\ seen_ids' = added.seen_ids
    /\ query_no' = query_no + 1
    /\ pc' = IF query_no = Len(queries(Current.title, Current.artist)) THEN "select" ELSE "search"
    /\ UNCHANGED << mainVars, stdout, playlistVars >>

\* search_track returns: the empty result without candidates, else what
\* _find_best_match selects. The run dies when scoring raises.
ReturnMatch ==
    /\ pc = "select"
    /\ LET r == search_track_result(candidates, Current.title, Current.artist)
       IN  IF r.raised
           THEN /\ pc' = "crashed"
                /\ match' = match
           ELSE /\ match' = r.result
                /\ pc' = "matched"
    /\ UNCHANGED << service_max, tracks, dry_run, idx, found_ids, not_found, history, searchVars,
                    sp_calls, stderr, stdout, playlistVars, callVars >>

\* Mutant of FiledFound: the id is inserted at the front.
FiledFound_Prepend(found, m) ==
    IF Truthy(m.track_id) THEN << m.track_id.v >> \o found ELSE found

\* if track_id: found_ids.append(track_id)
FiledFound(found, m) ==
    IF Truthy(m.track_id) THEN Append(found, m.track_id.v) ELSE found

\* else: not_found.append((title, artist))
FiledNotFound(missing, m, query) ==
    IF Truthy(m.track_id) THEN missing ELSE Append(missing, <<query.title, query.artist>>)

\* The body of main's loop after search_track returned: track_id goes to
\* found_ids when truthy, else (title, artist) goes to not_found. The locals of
\* the finished search_track call are gone.
FileMatch ==
    /\ pc = "matched"
    /\ found_ids' = FiledFound(found_ids, match)
    /\ not_found' = FiledNotFound(not_found, match, Current)
    /\ history' = Append(history, match)
    /\ idx' = idx + 1
    /\ pc' = "loop"
    /\ query_no' = 1
    /\ candidates' = <<>>
    /\ seen_ids' = {}
    /\ responses' = <<>>
    /\ UNCHANGED << service_max, tracks, dry_run, match, sp_calls, stderr, stdout, playlistVars, callVars >>

\* ---------------------------------------------------------- after the loop

\* print(f"Found: {len(found_ids)}/{len(tracks)} tracks")
FoundLine == [line |-> "Found", n |-> Len(found_ids), total |-> Len(tracks)]

\* The dry-run branch: report, call nothing.
DryRun ==
    /\ pc = "loop"
    /\ idx = Len(tracks)
    /\ dry_run
    /\ stdout' = stdout \o << FoundLine,
                              [line |-> "Dry run complete. No playlist created."],
                              [line |-> "Would have added", n |-> Len(found_ids)] >>
    /\ pc' = "list"
    /\ UNCHANGED << mainVars, searchVars, sp_calls, stderr, playlistVars >>

\* create_playlist called whatever the mode: the dry-run test left out.
CallCreatePlaylist_IgnoresDryRun ==
    /\ pc = "loop"
    /\ idx = Len(tracks)
    /\ found_ids # <<>>
    /\ stdout' = Append(stdout, FoundLine)
    /\ track_ids' = found_ids
    /\ stderr' = <<>>
    /\ pc' = "current_user"
    /\ UNCHANGED << mainVars, searchVars, sp_calls, playlist, batch_i, tracks_added, url >>

\* The branch that calls create_playlist(sp, found_ids, ...).
CallCreatePlaylist ==
    /\ pc = "loop"
    /\ idx = Len(tracks)
    /\ ~dry_run
    /\ found_ids # <<>>
    /\ stdout' = Append(stdout, FoundLine)
    /\ track_ids' = found_ids
    /\ stderr' = <<>>
    /\ pc' = "current_user"
    /\ UNCHANGED << mainVars, searchVars, sp_calls, playlist, batch_i, tracks_added, url >>

\* The branch taken with nothing found.
NoTracksFound ==
    /\ pc = "loop"
    /\ idx = Len(tracks)
    /\ ~dry_run
    /\ found_ids = <<>>
    /\ stdout' = stdout \o << FoundLine, [line |-> "No tracks found. Playlist not created."] >>
    /\ pc' = "list"
    /\ UNCHANGED << mainVars, searchVars, sp_calls, stderr, playlistVars >>

\* --------------------------------------------------------- create_playlist

batch_size == 100

\* What create_playlist's two except clauses print for an exception.
create_playlist_diag(outcome) ==
    IF outcome = "spotify_403"
    THEN [line |-> "Error: Permission denied. Check playlist creation permissions."]
    ELSE IF outcome = "spotify_error"
    THEN [line |-> "Error: Spotify API error"]
    ELSE [line |-> "Error creating playlist"]

\* Mutant of CreatePlaylistFails: no handler, the error leaves create_playlist
\* and main.
CreatePlaylistFails_Propagates(outcome) ==
    /\ stderr' = stderr
    /\ url' = url
    /\ pc' = "crashed"

\* Mutant of CreatePlaylistFails: the handler prints and the failed call is
\* made again instead of returning None.
CreatePlaylistFails_Retry(outcome) ==
    /\ stderr' = Append(stderr, create_playlist_diag(outcome))
    /\ url' = url
    /\ pc' = pc

\* create_playlist's except clauses: print and return None.
CreatePlaylistFails(outcome) ==
    /\ stderr' = Append(stderr, create_playlist_diag(outcome))
    /\ url' = Null
    /\ pc' = "returned"

\* user_id = sp.current_user()["id"]
CurrentUser ==
    /\ pc = "current_user"
    /\ \E outcome \in ApiOutcomes :
        /\ sp_calls' = Append(sp_calls, [op |-> "current_user", outcome |-> outcome])
        /\ IF outcome = "ok"
           THEN /\ pc' = "create"
                /\ UNCHANGED << stderr, url >>
           ELSE CreatePlaylistFails(outcome)
    /\ UNCHANGED << mainVars, searchVars, stdout, track_ids, playlist, batch_i, tracks_added >>

\* playlist = sp.user_playlist_create(...), then _add_tracks_in_batches starts:
\* tracks_added = 0 and the range loop at i = 0.
UserPlaylistCreate ==
    /\ pc = "create"
    /\ \E outcome \in ApiOutcomes :
        /\ sp_calls' = Append(sp_calls, [op |-> "user_playlist_create", outcome |-> outcome])
        /\ IF outcome = "ok"
           THEN /\ playlist' = Val(NewPlaylist)
                /\ tracks_added' = 0
                /\ batch_i' = 0
                /\ pc' = IF 0 < Len(track_ids) THEN "add" ELSE "add_done"
                /\ UNCHANGED << stderr, url >>
           ELSE /\ CreatePlaylistFails(outcome)
                /\ UNCHANGED << playlist, tracks_added, batch_i >>
    /\ UNCHANGED << mainVars, searchVars, stdout, track_ids >>

Min(a, b) == IF a < b THEN a ELSE b

\* Mutant of BatchAt: the slice ends one id early.
BatchAt_Short(ids, i) == SubSeq(ids, i + 1, Min(i + batch_size - 1, Len(ids)))

\* Mutant of BatchAt: the slice ignores i, so every batch is the first one.
BatchAt_NoOffset(ids, i) == SubSeq(ids, 1, Min(batch_size, Len(ids)))

\* batch = track_ids[i:i + batch_size]
BatchAt(ids, i) == SubSeq(ids, i + 1, Min(i + batch_size, Len(ids)))

\* Whether `except spotipy.SpotifyException` of _add_tracks_in_batches catches it.
BatchHandlerCatches(outcome) == IsSpotifyException(outcome)

\* One pass of the loop of _add_tracks_in_batches: add the batch at i; a
\* SpotifyException prints and breaks; any other exception leaves the
\* function and is caught by create_playlist's `except Exception`.
AddBatch ==
    /\ pc = "add"
    /\ \E outcome \in ApiOutcomes :
        /\ sp_calls' = Append(sp_calls, [ op |-> "playlist_add_items",
                                           playlist_id |-> playlist.v.id,
                                           items |-> BatchAt(track_ids, batch_i),
                                           outcome |-> outcome ])
        /\ IF outcome = "ok"
           THEN /\ tracks_added' = tracks_added + Len(BatchAt(track_ids, batch_i))
                /\ batch_i' = batch_i + batch_size
                /\ pc' = IF batch_i + batch_size < Len(track_ids) THEN "add" ELSE "add_done"
                /\ UNCHANGED << stderr, url >>
           ELSE IF BatchHandlerCatches(outcome)
           THEN /\ stderr' = stderr \o
                       << [line |-> "Error adding tracks",
                           batch_num |-> (batch_i \div batch_size) + 1],
                          [line |-> "tracks before failure", added |-> tracks_added,
                           total |-> Len(track_ids)] >>
                /\ pc' = "add_done"
                /\ UNCHANGED << tracks_added, batch_i, url >>
           ELSE /\ CreatePlaylistFails(outcome)
                /\ UNCHANGED << tracks_added, batch_i >>
    /\ UNCHANGED << mainVars, searchVars, stdout, track_ids, playlist >>

\* return playlist["external_urls"]["spotify"]
ReturnPlaylistUrl ==
    /\ pc = "add_done"
    /\ url' = Val(playlist.v.external_urls.spotify)
    /\ pc' = "returned"
    /\ UNCHANGED << mainVars, searchVars, sp_calls, stderr, stdout, track_ids, playlist,
                    batch_i, tracks_added >>

\* ------------------------------------------------------------ main's report

\* if url: ... else: print("Failed to create playlist.", file=sys.stderr)
ReportPlaylist ==
    /\ pc = "returned"
    /\ IF Truthy(url)
       THEN /\ stdout' = stdout \o << [line |-> "Created playlist"], [line |-> "URL", url |-> url.v] >>
            /\ stderr' = stderr
       ELSE /\ stderr' = Append(stderr, [line |-> "Failed to create playlist."])
            /\ stdout' = stdout
    /\ pc' = "list"
    /\ UNCHANGED << mainVars, searchVars, sp_calls, playlistVars >>

\* if not_found: the header and one line per not-found entry.
ListNotFound ==
    /\ pc = "list"
    /\ stdout' = IF not_found # <<>>
                 THEN stdout \o << [line |-> "Not found", n |-> Len(not_found)] >>
                      \o [k \in 1..Len(not_found) |-> [line |-> "  -", entry |-> not_found[k]]]
                 ELSE stdout
    /\ pc' = "done"
    /\ UNCHANGED << mainVars, searchVars, sp_calls, stderr, playlistVars >>

\* ---------------------------------------------------------- specifications

Next ==
    \/ CallSearchTrack
    \/ ExecuteSearch
    \/ ReturnMatch
    \/ FileMatch
    \/ DryRun
    \/ CallCreatePlaylist
    \/ NoTracksFound
    \/ CurrentUser
    \/ UserPlaylistCreate
    \/ AddBatch
    \/ ReturnPlaylistUrl
    \/ ReportPlaylist
    \/ ListNotFound

\* A run of main from the start of its matching loop.
Spec == Init /\ [][Next]_vars

\* The same run, kept going: main is one sequential process, so its next
\* statement is executed whenever there is one, and a call on the service
\* either returns or raises.
SpecFair == Init /\ [][Next]_vars /\ WF_vars(Next)

\* create_playlist called on its own with up to MaxIds track ids.
InitPlaylist ==
    /\ service_max = 0
    /\ track_ids \in { [k \in 1..n |-> k] : n \in 0..MaxIds }
    /\ pc = "current_user"
    /\ tracks = <<>>
    /\ dry_run = FALSE
    /\ idx = 0
    /\ found_ids = <<>>
    /\ not_found = <<>>
    /\ match = EmptyMatch
    /\ history = <<>>
    /\ query_no = 1
    /\ candidates = <<>>
    /\ seen_ids = {}
    /\ responses = <<>>
    /\ sp_calls = <<>>
    /\ stderr = <<>>
    /\ stdout = <<>>
    /\ playlist = Null
    /\ batch_i = 0
    /\ tracks_added = 0
    /\ url = Absent
    /\ arg = Null
    /\ ret = Null

NextPlaylist ==
    \/ CurrentUser
    \/ UserPlaylistCreate
    \/ AddBatch
    \/ ReturnPlaylistUrl

SpecPlaylist == InitPlaylist /\ [][NextPlaylist]_vars

\* search_track called on its own for one TrackQuery.
InitSearch ==
    /\ service_max = MaxResults
    /\ tracks \in SeqsOf(Queries, 1, 1)
    /\ dry_run = FALSE
    /\ pc = "loop"
    /\ idx = 0
    /\ found_ids = <<>>
    /\ not_found = <<>>
    /\ match = EmptyMatch
    /\ history = <<>>
    /\ query_no = 1
    /\ candidates = <<>>
    /\ seen_ids = {}
    /\ responses = <<>>
    /\ sp_calls = <<>>
    /\ stderr = <<>>
    /\ stdout = <<>>
    /\ track_ids = <<>>
    /\ playlist = Null
    /\ batch_i = 0
    /\ tracks_added = 0
    /\ url = Absent
    /\ arg = Null
    /\ ret = Null

NextSearch ==
    \/ CallSearchTrack
    \/ ExecuteSearch
    \/ ReturnMatch

SpecSearch == InitSearch /\ [][NextSearch]_vars

\* ------------------------------------------- score_track_match on its own

\* Spotify's popularity scale, 0-100.
MaxPopularity == 100

T_SONG == <<"S","O","N","G">>

T_Tribute == <<"T","r","i","b","u","t","e">>

T_Covers == <<"C","o","v","e","r","s">>

\* The names, artist names and album names of the payloads scored: a name
\* differing from a query's title by case only, and one text with a karaoke
\* keyword for each of the three fields.
ScoreNames == {T_Song, T_SONG, T_SongKaraoke}

ScoreArtistNames == {T_Queen, T_Tribute}

ScoreAlbumNames == {T_Hits, T_Covers}

\* The "artists" field of a payload: missing, null, an empty list, or a list
\* whose first entry has its name missing, null, or present.
ArtistsFields ==
    {Absent, Null, Val(<<>>), Val(<< [name |-> Absent] >>), Val(<< [name |-> Null] >>)}
    \cup { Val(<< [name |-> Val(a)] >>) : a \in ScoreArtistNames }

\* The "album" field: missing, null, or a record with its name missing, null,
\* or present.
AlbumFields ==
    {Absent, Null, Val([name |-> Absent]), Val([name |-> Null])}
    \cup { Val([name |-> Val(a)]) : a \in ScoreAlbumNames }

\* The "popularity" field: missing, null, or a number of the scale.
PopularityFields == {Absent, Null} \cup { Val(p) : p \in {0, 50, MaxPopularity} }

\* Payloads with any combination of missing and null optional fields.
SparsePayloads ==
    { [id |-> "t1", name |-> n, artists |-> ar, album |-> al, popularity |-> po] :
        n \in ScoreNames, ar \in ArtistsFields, al \in AlbumFields, po \in PopularityFields }

\* Payloads with every field present, over the whole popularity scale.
FullPayloads ==
    { mock_spotify_track(n, a, al, p, "t1") :
        n \in ScoreNames, a \in ScoreArtistNames, al \in ScoreAlbumNames, p \in 0..MaxPopularity }

\* One call score_track_match(track, expected_title, expected_artist).
InitScore ==
    /\ arg \in { [track |-> t, expected_title |-> q.title, expected_artist |-> q.artist] :
                    t \in SparsePayloads \cup FullPayloads, q \in Queries }
    /\ ret = Null
    /\ pc = "score"
    /\ service_max = 0
    /\ tracks = <<>>
    /\ dry_run = FALSE
    /\ idx = 0
    /\ found_ids = <<>>
    /\ not_found = <<>>
    /\ match = EmptyMatch
    /\ history = <<>>
    /\ query_no = 1
    /\ candidates = <<>>
    /\ seen_ids = {}
    /\ responses = <<>>
    /\ sp_calls = <<>>
    /\ stderr = <<>>
    /\ stdout = <<>>
    /\ track_ids = <<>>
    /\ playlist = Null
    /\ batch_i = 0
    /\ tracks_added = 0
    /\ url = Absent

\* The call returns its tuple, or raises.
ScoreTrackMatch ==
    /\ pc = "score"
    /\ ret' = score_track_match(arg.track, arg.expected_title, arg.expected_artist)
    /\ pc' = "scored"
    /\ UNCHANGED << service_max, tracks, dry_run, idx, found_ids, not_found, match, history, arg,
                    searchVars, sp_calls, stderr, stdout, playlistVars >>

NextScore == ScoreTrackMatch

SpecScore == InitScore /\ [][NextScore]_vars

\* ------------------------------------------------------ parse_tsv on its own

\* Most data rows of an input file.
MaxDataRows == 2

\* Most columns a row carries after title and artist.
MaxExtraColumns == 1

Tab == "\t"

\* What str.strip() removes at both ends.
Whitespace == {" ", Tab, "\n", "\r"}

\* The texts of a title or artist column as written in a file: empty, blank,
\* plain, and padded.
TsvCells == { <<>>, <<" ">>, <<"a">>, <<" ","b"," ">> }

\* The columns after the second.
ExtraColumns(n) == [k \in 1..n |-> <<"x">>]

\* A line of the file: its columns joined by tabs.
RECURSIVE JoinTab(_)
JoinTab(columns) ==
    IF columns = <<>> THEN <<>>
    ELSE IF Len(columns) = 1 THEN columns[1]
    ELSE columns[1] \o <<Tab>> \o JoinTab(Tail(columns))

\* The data lines: one or two columns of TsvCells, then the extra columns.
TsvLines ==
    { JoinTab(c \o ExtraColumns(e)) : c \in SeqsOf(TsvCells, 1, 2), e \in 0..MaxExtraColumns }

HeaderLine == <<"T", Tab, "A">>

\* The files parse_tsv is called on: missing, empty, or a header line with
\* up to MaxDataRows data lines.
TsvFiles ==
    { [exists |-> FALSE, lines |-> <<>>], [exists |-> TRUE, lines |-> <<>>] }
    \cup { [exists |-> TRUE, lines |-> <<HeaderLine>> \o data] : data \in SeqsOf(TsvLines, 0, MaxDataRows) }

\* csv.reader(f, delimiter="\t") on one line without quote characters: the
\* texts between the tabs; an empty line gives a row without columns.
RECURSIVE SplitTab(_, _)
SplitTab(line, column) ==
    IF line = <<>> THEN << column >>
    ELSE IF Head(line) = Tab THEN << column >> \o SplitTab(Tail(line), <<>>)
    ELSE SplitTab(Tail(line), Append(column, Head(line)))

csv_row(line) == IF line = <<>> THEN <<>> ELSE SplitTab(line, <<>>)

\* rows = list(reader)
csv_rows(lines) == [k \in 1..Len(lines) |-> csv_row(lines[k])]

RECURSIVE lstrip(_)
lstrip(text) ==
    IF text # <<>> /\ Head(text) \in Whitespace THEN lstrip(Tail(text)) ELSE text

RECURSIVE rstrip(_)
rstrip(text) ==
    IF text # <<>> /\ text[Len(text)] \in Whitespace
    THEN rstrip(SubSeq(text, 1, Len(text) - 1))
    ELSE text

\* Mutant of strip: only the left end is stripped.
strip_LeftOnly(text) == lstrip(text)

\* str.strip()
strip(text) == rstrip(lstrip(text))

\* sys.exit(1) after a line on stderr.
Exit(diag) == [kind |-> "exit", code |-> 1, stderr |-> << diag >>]

\* The loop over rows[1:] from the row of line line_num on, with the tracks
\* gathered so far.
RECURSIVE parse_rows(_, _, _)
parse_rows(rows, line_num, parsed) ==
    IF line_num > Len(rows) THEN [kind |-> "return", tracks |-> parsed]
    ELSE LET row == rows[line_num]
         IN  IF Len(row) < 2
             THEN Exit([line |-> "Invalid row", line_num |-> line_num])
             ELSE LET title == strip(row[1])
                      artist == strip(row[2])
                  IN  IF title = <<>> \/ artist = <<>>
                      THEN Exit([line |-> "Empty title or artist", line_num |-> line_num])
                      ELSE parse_rows(rows, line_num + 1, Append(parsed, <<title, artist>>))

\* parse_tsv(filepath): the list of (title, artist), or the exit.
parse_tsv(file) ==
    IF ~file.exists THEN Exit([line |-> "File not found"])
    ELSE LET rows == csv_rows(file.lines)
         IN  IF Len(rows) <= 1
             THEN Exit([line |-> "Input file is empty or contains only a header row"])
             ELSE parse_rows(rows, 2, <<>>)

\* One call parse_tsv(filepath).
InitTsv ==
    /\ arg \in TsvFiles
    /\ ret = Null
    /\ pc = "parse"
    /\ service_max = 0
    /\ tracks = <<>>
    /\ dry_run = FALSE
    /\ idx = 0
    /\ found_ids = <<>>
    /\ not_found = <<>>
    /\ match = EmptyMatch
    /\ history = <<>>
    /\ query_no = 1
    /\ candidates = <<>>
    /\ seen_ids = {}
    /\ responses = <<>>
    /\ sp_calls = <<>>
    /\ stderr = <<>>
    /\ stdout = <<>>
    /\ track_ids = <<>>
    /\ playlist = Null
    /\ batch_i = 0
    /\ tracks_added = 0
    /\ url = Absent

\* The call returns its list, or exits.
ParseTsv ==
    /\ pc = "parse"
    /\ ret' = parse_tsv(arg)
    /\ pc' = "parsed"
    /\ UNCHANGED << service_max, tracks, dry_run, idx, found_ids, not_found, match, history, arg,
                    searchVars, sp_calls, stderr, stdout, playlistVars >>

NextTsv == ParseTsv

SpecTsv == InitTsv /\ [][NextTsv]_vars

\* ------------------------------------------------------------------ claims

\* The calls of one operation on the client, in order.
OpCalls(op) == SelectSeq(sp_calls, LAMBDA c : c.op = op)

AddCalls == OpCalls("playlist_add_items")

\* The concatenation of the items of the add-items calls that succeeded.
RECURSIVE AddedItems(_)
AddedItems(calls) ==
    IF calls = <<>> THEN <<>>
    ELSE (IF Head(calls).outcome = "ok" THEN Head(calls).items ELSE <<>>)
         \o AddedItems(Tail(calls))

\* C1: once the playlist resource exists, create_playlist returns its URL
\* whatever a playlist-add-items call raised; None is returned only when
\* creation failed.
C1_UrlOnceCreated ==
    (pc = "returned" /\ playlist.tag = "val") => Truthy(url)

\* create_playlist gave up before a playlist existed.
CreationFailed == url = Null /\ playlist = Null

\* A call resolving the user or creating the playlist raised.
CreationCallRaised ==
    \E k \in 1..Len(sp_calls) :
        /\ sp_calls[k].op \in { "current_user", "user_playlist_create" }
        /\ sp_calls[k].outcome # "ok"

\* main's closing list: one line per not-found entry, in order, ends stdout.
NotFoundListed ==
    LET n == Len(not_found)
    IN  /\ Len(stdout) >= n
        /\ \A k \in 1..n :
            stdout[Len(stdout) - n + k] = [line |-> "  -", entry |-> not_found[k]]

\* C2: when resolving the user or creating the playlist raises, create_playlist
\* returns None, no add-items call is ever issued, the failed call is not made
\* again, and the run goes on to its end, where main has reported the failure
\* on stderr and listed every not-found entry.
C2_CreationFailureAborts ==
    /\ CreationCallRaised <=> CreationFailed
    /\ CreationFailed =>
        /\ pc \in { "returned", "list", "done" }
        /\ AddCalls = <<>>
        /\ Len(OpCalls("current_user")) <= 1
        /\ Len(OpCalls("user_playlist_create")) <= 1
        /\ sp_calls[Len(sp_calls)].op \in { "current_user", "user_playlist_create" }
        /\ pc # "done" => ENABLED Next
        /\ pc = "done" =>
            /\ \E k \in 1..Len(stderr) : stderr[k] = [line |-> "Failed to create playlist."]
            /\ \A k \in 1..Len(stdout) : stdout[k].line \notin { "Created playlist", "URL" }
            /\ NotFoundListed

\* C2's case: creating the playlist raised in a run with a not-found entry,
\* and the run has ended.
C2_Witness ==
    /\ pc = "done"
    /\ CreationFailed
    /\ not_found # <<>>
    /\ sp_calls[Len(sp_calls)].op = "user_playlist_create"

\* C3: the k-th add-items call carries the k-th batch (so no batch is sent
\* twice), a call that raised is the last one, tracks_added is the total size of
\* the batches that succeeded and never exceeds len(track_ids), the tracks added
\* are a prefix of track_ids, and after a service error the loop is over.
C3_BatchFailureStops ==
    LET calls == AddCalls
        n == Len(calls)
    IN  /\ tracks_added <= Len(track_ids)
        /\ \A k \in 1..n :
            calls[k].items = SubSeq(track_ids, (k - 1) * batch_size + 1,
                                    Min(k * batch_size, Len(track_ids)))
        /\ \A k \in 1..(n - 1) : calls[k].outcome = "ok"
        /\ tracks_added = Len(AddedItems(calls))
        /\ AddedItems(calls) = SubSeq(track_ids, 1, tracks_added)
        /\ (n > 0 /\ IsSpotifyException(calls[n].outcome)) =>
            /\ pc \in { "add_done", "returned" }
            /\ tracks_added = (n - 1) * batch_size
            /\ pc = "returned" => Truthy(url)

\* C3's example: 250 ids, the second batch raised a service error.
C3_Witness ==
    /\ Len(track_ids) = 250
    /\ Len(AddCalls) = 2
    /\ IsSpotifyException(AddCalls[2].outcome)
    /\ tracks_added = 100
    /\ pc = "returned"

\* A search_track call is under way, or has returned and is not yet filed.
InSearch == pc \in { "search", "select", "matched" }

Searched == pc \in { "select", "matched" }

\* The score of a candidate against the TrackQuery at hand.
ScoreFor(track) == ScoreOf(track, Current.title, Current.artist).score

Positive(track) == Gt(ScoreFor(track), Zero)

\* The items of the responses that did not raise, in the order received.
RECURSIVE ItemsOf(_)
ItemsOf(resps) ==
    IF resps = <<>> THEN <<>>
    ELSE execute_search_items(Head(resps)) \o ItemsOf(Tail(resps))

IdsOf(items) == { items[k].id : k \in 1..Len(items) }

\* The n-th smallest member of a set of numbers.
NthOf(S, n) == CHOOSE i \in S : Cardinality({ j \in S : j <= i }) = n

Failed(resp) == resp.kind # "ok"

\* The stderr line a failed response must leave.
DiagLineOf(resp) ==
    [ line |-> IF resp.kind = "spotify_error" THEN "Spotify API error searching for"
               ELSE "Error searching for",
      title |-> Current.title ]

\* C4: a search call that raises leaves one line on stderr and no candidate,
\* the other query is still executed and its items are still candidates; when
\* the first query raised and the second returned a positively scoring track, a
\* track of the second response is returned; when neither query yields an item
\* the result is (None, 0, None, None).
C4_FaultIsolated ==
    InSearch =>
        LET failed == { k \in 1..Len(responses) : Failed(responses[k]) }
        IN  /\ Len(stderr) = Cardinality(failed)
            /\ \A n \in 1..Len(stderr) : stderr[n] = DiagLineOf(responses[NthOf(failed, n)])
            /\ IdsOf(candidates) = IdsOf(ItemsOf(responses))
            /\ pc = "search" => (Len(responses) < 2 /\ ENABLED ExecuteSearch)
            /\ Searched => Len(responses) = 2
            /\ pc = "matched" =>
                /\ ( /\ Failed(responses[1])
                     /\ ~Failed(responses[2])
                     /\ \E k \in 1..Len(responses[2].items) : Positive(responses[2].items[k]) )
                   => ( /\ Truthy(match.track_id)
                        /\ match.track_id.v \in IdsOf(responses[2].items) )
                /\ (\A k \in 1..2 : execute_search_items(responses[k]) = <<>>)
                   => match = EmptyMatch

\* C4's case: the first query raised, the second returned one track, and that
\* track is the result.
C4_Witness ==
    /\ pc = "matched"
    /\ responses[1].kind = "spotify_error"
    /\ responses[2].kind = "ok"
    /\ Len(responses[2].items) = 1
    /\ match.track_id = Val(responses[2].items[1].id)
    /\ Len(stderr) = 1

\* C5: _find_best_match on the candidates returns a track exactly when some
\* candidate scores above 0, and otherwise exactly (None, 0, None, None); a
\* returned track comes with its own score, which is above 0.
C5_PositiveThreshold ==
    Searched =>
        LET r == find_best_match(candidates, Current.title, Current.artist).result
            positive == { k \in 1..Len(candidates) : Positive(candidates[k]) }
        IN  /\ (r # EmptyMatch) <=> (positive # {})
            /\ r # EmptyMatch =>
                /\ Truthy(r.track_id)
                /\ Gt(r.score, Zero)
                /\ \E k \in 1..Len(candidates) :
                    /\ candidates[k].id = r.track_id.v
                    /\ r.score = ScoreFor(candidates[k])
            /\ pc = "matched" => match = r

\* C5's case: candidates exist, none scores above 0, one scores exactly 0, and
\* the result is empty.
C5_Witness ==
    /\ pc = "matched"
    /\ candidates # <<>>
    /\ \A k \in 1..Len(candidates) : ~Positive(candidates[k])
    /\ \E k \in 1..Len(candidates) : Eq(ScoreFor(candidates[k]), Zero)
    /\ match = EmptyMatch

\* The text score_track_match searches for keywords.
CandidateText(track) ==
    combined_text(track.name, ArtistNameOf(track).v, AlbumNameOf(track))

\* C6: the track search_track returns never carries a non-original-recording
\* marker in its name, artist or album.
C6_NoMarkedTrackSelected ==
    (pc = "matched" /\ Truthy(match.track_id)) =>
        \A k \in 1..Len(candidates) :
            candidates[k].id = match.track_id.v
                => ~HasKaraokeKeyword(CandidateText(candidates[k]))

\* C7: when some candidate scores above 0 the result is the id, score, name and
\* artist of the first candidate, in sequence order, that no candidate outscores.
C7_MaxEarliest ==
    (pc = "matched" /\ \E k \in 1..Len(candidates) : Positive(candidates[k])) =>
        \E k \in 1..Len(candidates) :
            /\ \A j \in 1..Len(candidates) : ~Gt(ScoreFor(candidates[j]), ScoreFor(candidates[k]))
            /\ \A j \in 1..(k - 1) : Gt(ScoreFor(candidates[k]), ScoreFor(candidates[j]))
            /\ match = [ track_id |-> Val(candidates[k].id),
                         score |-> ScoreFor(candidates[k]),
                         matched_title |-> Val(candidates[k].name),
                         matched_artist |-> ArtistNameOf(candidates[k]) ]

\* C7's case: the two best candidates tie, they come from different queries,
\* and the earlier one is the result.
C7_Witness ==
    /\ pc = "matched"
    /\ Len(candidates) = 2
    /\ Positive(candidates[1])
    /\ Eq(ScoreFor(candidates[1]), ScoreFor(candidates[2]))
    /\ Len(execute_search_items(responses[1])) = 1
    /\ match.track_id = Val(candidates[1].id)

\* C8: candidates never holds an id twice; it is the received items with every
\* later occurrence of an id removed, in the order received.
C8_FirstOccurrencesOnly ==
    InSearch =>
        LET all == ItemsOf(responses)
            keep == { i \in 1..Len(all) : \A j \in 1..(i - 1) : all[j].id # all[i].id }
        IN  /\ \A i, j \in 1..Len(candidates) : i # j => candidates[i].id # candidates[j].id
            /\ Len(candidates) = Cardinality(keep)
            /\ \A k \in 1..Len(candidates) : candidates[k] = all[NthOf(keep, k)]
            /\ seen_ids = IdsOf(candidates)

\* C8's case: an id came twice in the first response and again in the second,
\* which also brought a new id.
C8_Witness ==
    /\ pc = "select"
    /\ ~Failed(responses[1])
    /\ ~Failed(responses[2])
    /\ Len(responses[1].items) = 2
    /\ Len(responses[2].items) = 2
    /\ responses[1].items[1].id = responses[1].items[2].id
    /\ responses[2].items[1].id = responses[1].items[1].id
    /\ responses[2].items[2].id # responses[1].items[1].id
    /\ Len(candidates) = 2

\* C9: the search calls of a search_track call are, in this order and once
\* each, 'track:<title> artist:<artist>' and '<title> <artist>', both for type
\* track with limit 10, whatever the first call did.
C9_TwoQueriesInOrder ==
    InSearch =>
        LET expected ==
                << [ op |-> "search", type |-> "track", limit |-> 10,
                     q |-> S_track \o Current.title \o S_artist \o Current.artist ],
                   [ op |-> "search", type |-> "track", limit |-> 10,
                     q |-> Current.title \o Space \o Current.artist ] >>
            own == SubSeq(sp_calls, 2 * idx + 1, Len(sp_calls))
        IN  /\ Len(sp_calls) = 2 * idx + Len(responses)
            /\ own = SubSeq(expected, 1, Len(responses))
            /\ pc = "search" => Len(own) = query_no - 1
            /\ Searched => Len(own) = 2

\* C9's case: the first query raised and search_track has returned.
C9_Witness ==
    /\ pc = "matched"
    /\ responses[1].kind = "error"
    /\ Len(sp_calls) = 2

\* The positions of the processed TrackQueries that were matched, and not.
FoundIdx == { k \in 1..Len(history) : Truthy(history[k].track_id) }

MissIdx == { k \in 1..Len(history) : ~Truthy(history[k].track_id) }

\* C10: after any number of processed TrackQueries, found_ids holds the
\* track_id of each non-empty result and not_found the (title, artist) of each
\* query with an empty result, both in input order, so that their lengths add
\* up to the number processed; a result is non-empty exactly when a candidate
\* scored above 0.
C10_Accumulators ==
    /\ Len(history) = idx
    /\ idx <= Len(tracks)
    /\ Len(found_ids) + Len(not_found) = idx
    /\ Len(found_ids) = Cardinality(FoundIdx)
    /\ \A n \in 1..Len(found_ids) : found_ids[n] = history[NthOf(FoundIdx, n)].track_id.v
    /\ \A n \in 1..Len(not_found) :
        not_found[n] = << tracks[NthOf(MissIdx, n)].title, tracks[NthOf(MissIdx, n)].artist >>
    /\ \A k \in 1..Len(history) : Truthy(history[k].track_id) <=> history[k] # EmptyMatch
    /\ pc = "matched" =>
        (Truthy(match.track_id) <=> \E k \in 1..Len(candidates) : Positive(candidates[k]))

\* C10's case: two TrackQueries processed, both matched with different tracks.
C10_Witness ==
    /\ pc = "loop"
    /\ idx = 2
    /\ Len(found_ids) = 2
    /\ found_ids[1] # found_ids[2]

\* A second case of C10: the first TrackQuery was not matched, the second was.
C10_WitnessMixed ==
    /\ pc = "loop"
    /\ idx = 2
    /\ ~Truthy(history[1].track_id)
    /\ Truthy(history[2].track_id)
    /\ Len(not_found) = 1

\* ---------------------------------------------------------------------------
\* C11
\* ---------------------------------------------------------------------------

\* The calls create_playlist and its helper make on the client.
PlaylistOps == {"current_user", "user_playlist_create", "playlist_add_items"}

\* The positions of the run inside create_playlist.
InCreatePlaylist == pc \in {"current_user", "create", "add", "add_done", "returned"}

\* The positions of the run after the branch on dry_run and found_ids.
AfterBranch == pc \in {"list", "done"}

\* The positions of sp_calls holding a call of the given operation.
CallIdx(op) == {k \in 1..Len(sp_calls) : sp_calls[k].op = op}

\* C11: create_playlist is called at most once and only after every
\* TrackQuery has been processed (all the search calls come before any
\* playlist call); in dry-run mode no playlist-create or add-items call is
\* ever issued; otherwise create_playlist is called exactly when the found
\* list is not empty, and it receives the found list, whose ids stand in
\* input order.
C11_CreatePlaylistOnceAfterLoop ==
    /\ Cardinality(CallIdx("current_user")) <= 1
    /\ Cardinality(CallIdx("user_playlist_create")) <= 1
    /\ \A k \in 1..Len(sp_calls) :
          sp_calls[k].op \in PlaylistOps =>
            /\ idx = Len(tracks)
            /\ Cardinality(CallIdx("search")) = 2 * Len(tracks)
            /\ \A j \in CallIdx("search") : j < k
            /\ ~dry_run
    /\ InCreatePlaylist =>
          /\ idx = Len(tracks)
          /\ ~dry_run
          /\ found_ids # <<>>
          /\ track_ids = found_ids
    /\ AfterBranch =>
          /\ idx = Len(tracks)
          /\ (CallIdx("current_user") # {}) <=> (~dry_run /\ found_ids # <<>>)
          /\ CallIdx("current_user") # {} => track_ids = found_ids
    /\ \A k \in CallIdx("playlist_add_items") :
          \E i \in 0..Len(found_ids) :
            sp_calls[k].items = SubSeq(found_ids, i + 1, i + Len(sp_calls[k].items))
    /\ \A n \in 1..Len(found_ids) : found_ids[n] = history[NthOf(FoundIdx, n)].track_id.v

\* A run outside dry-run mode that matched both TrackQuerys and handed both
\* ids, in input order, to one create_playlist call.
C11_Witness ==
    /\ pc = "done"
    /\ ~dry_run
    /\ Len(found_ids) = 2
    /\ Cardinality(CallIdx("current_user")) = 1
    /\ \E k \in CallIdx("playlist_add_items") : sp_calls[k].items = found_ids

\* A dry run that matched a TrackQuery and issued no playlist call.
C11_WitnessDryRun ==
    /\ pc = "done"
    /\ dry_run
    /\ found_ids # <<>>
    /\ \A k \in 1..Len(sp_calls) : sp_calls[k].op \notin PlaylistOps

\* ---------------------------------------------------------------------------
\* C12
\* ---------------------------------------------------------------------------

\* A field that is missing or null.
Missing(field) == field.tag \in {"absent", "null"}

\* The payloads C12 speaks of: each optional field is missing, null or, for
\* the artist list, empty, or else is present with a text name or a number.
OptionalFieldsMissingOrSet(track) ==
    /\ \/ Missing(track.artists)
       \/ track.artists.v = <<>>
       \/ track.artists.v[1].name.tag = "val"
    /\ Missing(track.album) \/ track.album.v.name.tag = "val"

\* C12: score_track_match never fails on a candidate whose optional fields
\* are missing or null, and applies the defaults: artist_name "" when the
\* artist list is missing, null or empty; album_name "" when the album is
\* missing or null (no album text reaches the keyword test); popularity 0 when
\* missing or null, so that an exact match without popularity scores 70.
C12_OptionalFieldsDefault ==
    (pc = "scored" /\ OptionalFieldsMissingOrSet(arg.track)) =>
        /\ ~ret.raised
        /\ (Missing(arg.track.artists) \/ arg.track.artists.v = <<>>) => ret.artist_name = <<>>
        /\ ( /\ Missing(arg.track.popularity)
             /\ ~Missing(arg.track.artists)
             /\ ~HasKaraokeKeyword(combined_text(ret.track_name, ret.artist_name, Val(<<>>)))
             /\ Lower(ret.track_name) = Lower(arg.expected_title)
             /\ Lower(ret.artist_name) = Lower(arg.expected_artist) )
            => Eq(ret.score, <<70, 1>>)

\* The part of C12 the code keeps: with the optional fields missing (not
\* null), the call returns with the defaults.
C12_AbsentFieldsDefault ==
    ( /\ pc = "scored"
      /\ OptionalFieldsMissingOrSet(arg.track)
      /\ arg.track.album.tag # "null"
      /\ arg.track.popularity.tag # "null" ) =>
        /\ ~ret.raised
        /\ (Missing(arg.track.artists) \/ arg.track.artists.v = <<>>) => ret.artist_name = <<>>
        /\ ( /\ arg.track.popularity.tag = "absent"
             /\ arg.track.album.tag = "absent"
             /\ Lower(ret.track_name) = Lower(arg.expected_title)
             /\ Lower(ret.artist_name) = Lower(arg.expected_artist) )
            => Eq(ret.score, <<70, 1>>)

\* An exact match scored without album and popularity fields.
C12_WitnessAbsent ==
    /\ pc = "scored"
    /\ arg.track.popularity.tag = "absent"
    /\ arg.track.album.tag = "absent"
    /\ ~ret.raised
    /\ Eq(ret.score, <<70, 1>>)

\* ---------------------------------------------------------------------------
\* C13
\* ---------------------------------------------------------------------------

\* The call returned a score.
Scored == pc = "scored" /\ ~ret.raised

\* The text of an optional name as the call saw it: "" when defaulted.
TextOf(field) == IF field.tag = "val" THEN field.v ELSE <<>>

\* The lower-cased 'name artist album' of the scored payload holds a marker.
Marked ==
    \E keyword \in KARAOKE_KEYWORDS :
        Contains(Lower(arg.track.name \o <<" ">> \o TextOf(ArtistNameOf(arg.track))
                       \o <<" ">> \o TextOf(AlbumNameOf(arg.track))),
                 keyword)

\* Title and artist of the payload equal the expected ones, case aside.
SameLetter(c, d) ==
    \/ c = d
    \/ c \in DOMAIN UpperToLower /\ UpperToLower[c] = d
    \/ d \in DOMAIN UpperToLower /\ UpperToLower[d] = c

EqualIgnoringCase(a, b) ==
    /\ Len(a) = Len(b)
    /\ \A i \in 1..Len(a) : SameLetter(a[i], b[i])

ExactMatch ==
    /\ EqualIgnoringCase(arg.track.name, arg.expected_title)
    /\ EqualIgnoringCase(TextOf(ArtistNameOf(arg.track)), arg.expected_artist)

Ge(x, y) == ~Gt(y, x)

\* C13: with popularity in 0..100 the score lies in [-50, 80], and in [0, 80]
\* when no marker is present; a case-insensitive exact match without marker
\* scores 70 + popularity/10.
C13_ScoreRange ==
    (Scored /\ PopularityOf(arg.track).v \in 0..MaxPopularity) =>
        /\ Ge(ret.score, <<0 - 50, 1>>)
        /\ Ge(<<80, 1>>, ret.score)
        /\ ~Marked => Ge(ret.score, Zero)
        /\ (ExactMatch /\ ~Marked) => Eq(ret.score, <<700 + PopularityOf(arg.track).v, 10>>)

\* An exact match differing by case from the expected title, at popularity
\* 100: the score is 80.
C13_Witness ==
    /\ Scored
    /\ arg.track.name # arg.expected_title
    /\ ExactMatch
    /\ ~Marked
    /\ arg.track.popularity = Val(MaxPopularity)
    /\ Eq(ret.score, <<80, 1>>)

\* A marked candidate scored below 0: the score is not clamped.
C13_WitnessNegative ==
    /\ Scored
    /\ Marked
    /\ Gt(Zero, ret.score)

\* ---------------------------------------------------------------------------
\* C16
\* ---------------------------------------------------------------------------

\* The score before the penalty, from the fields the call read.
Unpenalized ==
    UnpenalizedScore(arg.track.name, TextOf(ArtistNameOf(arg.track)), PopularityOf(arg.track).v,
                     arg.expected_title, arg.expected_artist)

\* The markers found in one text, lower-cased.
MarkersIn(text) == {keyword \in KARAOKE_KEYWORDS : Contains(Lower(text), keyword)}

\* C16: the score is the unpenalized score minus exactly 50 when the
\* lower-cased 'name artist album' contains a marker, whichever field holds it
\* and however many markers match, and is the unpenalized score otherwise.
C16_PenaltyOnce ==
    Scored =>
        /\ Marked => Eq(ret.score, Plus(Unpenalized, <<0 - 50, 1>>))
        /\ ~Marked => Eq(ret.score, Unpenalized)
        /\ ( \/ MarkersIn(arg.track.name) # {}
             \/ MarkersIn(TextOf(ArtistNameOf(arg.track))) # {}
             \/ MarkersIn(TextOf(AlbumNameOf(arg.track))) # {} ) => Marked

\* Three different markers, one in each field, and 50 subtracted once.
C16_Witness ==
    /\ Scored
    /\ MarkersIn(arg.track.name) = {kw_karaoke}
    /\ MarkersIn(TextOf(ArtistNameOf(arg.track))) = {kw_tribute}
    /\ MarkersIn(TextOf(AlbumNameOf(arg.track))) = {kw_cover}
    /\ Eq(ret.score, Plus(Unpenalized, <<0 - 50, 1>>))

\* A marker in the album name alone.
C16_WitnessAlbumOnly ==
    /\ Scored
    /\ MarkersIn(arg.track.name) = {}
    /\ MarkersIn(TextOf(ArtistNameOf(arg.track))) = {}
    /\ MarkersIn(TextOf(AlbumNameOf(arg.track))) = {kw_cover}
    /\ Eq(ret.score, Plus(Unpenalized, <<0 - 50, 1>>))

\* ---------------------------------------------------------------------------
\* C14
\* ---------------------------------------------------------------------------

\* The positions of the tabs of a line.
TabsOf(line) == {i \in 1..Len(line) : line[i] = Tab}

\* The number of columns of a line: none for an empty line.
ColumnCount(line) == IF line = <<>> THEN 0 ELSE Cardinality(TabsOf(line)) + 1

\* Column n of a line: the text between tab n-1 and tab n (or the line's ends).
ColumnOf(line, n) ==
    LET from == IF n = 1 THEN 0 ELSE NthOf(TabsOf(line), n - 1)
        to == IF n <= Cardinality(TabsOf(line)) THEN NthOf(TabsOf(line), n) ELSE Len(line) + 1
    IN  SubSeq(line, from + 1, to - 1)

\* text is column with the spaces around it removed.
IsStripped(text, column) ==
    \E i \in 1..(Len(column) + 1) :
        \E j \in 0..Len(column) :
            /\ text = SubSeq(column, i, j)
            /\ \A k \in 1..(i - 1) : column[k] = " "
            /\ \A k \in (j + 1)..Len(column) : column[k] = " "
            /\ text # <<>> => (text[1] # " " /\ text[Len(text)] # " ")

BlankText(column) == \A k \in 1..Len(column) : column[k] = " "

\* A data line parse_tsv rejects: fewer than 2 columns, or a blank title or
\* artist.
BadLine(line) ==
    \/ ColumnCount(line) < 2
    \/ BlankText(ColumnOf(line, 1))
    \/ BlankText(ColumnOf(line, 2))

\* The file is missing, empty, header-only, or has a bad data line.
BadFile(file) ==
    \/ ~file.exists
    \/ Len(file.lines) <= 1
    \/ \E k \in 2..Len(file.lines) : BadLine(file.lines[k])

\* C14: parse_tsv exits with status 1 when the file is missing, empty,
\* header-only, or has a data row with fewer than 2 columns or with a title or
\* artist empty after trimming; otherwise it returns one (title, artist) pair
\* per data row, in file order, the first two columns stripped of surrounding
\* whitespace, the other columns ignored. No partial list is returned, and both
\* fields of every returned pair are non-empty.
C14_ExitOrAllRows ==
    pc = "parsed" =>
        /\ BadFile(arg) => (ret.kind = "exit" /\ ret.code = 1)
        /\ ~BadFile(arg) =>
            /\ ret.kind = "return"
            /\ Len(ret.tracks) = Len(arg.lines) - 1
            /\ \A k \in 1..Len(ret.tracks) :
                /\ IsStripped(ret.tracks[k][1], ColumnOf(arg.lines[k + 1], 1))
                /\ IsStripped(ret.tracks[k][2], ColumnOf(arg.lines[k + 1], 2))
                /\ ret.tracks[k][1] # <<>>
                /\ ret.tracks[k][2] # <<>>

\* Two data rows returned in file order, the second with padded columns and
\* an extra column.
C14_Witness ==
    /\ pc = "parsed"
    /\ ret.kind = "return"
    /\ ret.tracks = << << <<"a">>, <<"b">> >>, << <<"b">>, <<"a">> >> >>
    /\ ColumnCount(arg.lines[3]) = 3
    /\ ColumnOf(arg.lines[3], 1) = <<" ","b"," ">>

\* A good first data row followed by a bad one: the exit, no list.
C14_WitnessNoPartialList ==
    /\ pc = "parsed"
    /\ Len(arg.lines) = 3
    /\ ~BadLine(arg.lines[2])
    /\ BadLine(arg.lines[3])
    /\ ret.kind = "exit"

\* ---------------------------------------------------------------------------
\* C15
\* ---------------------------------------------------------------------------

\* The items of the given add-items calls, one after the other.
RECURSIVE ItemsSent(_)
ItemsSent(calls) ==
    IF calls = <<>> THEN <<>> ELSE Head(calls).items \o ItemsSent(Tail(calls))

\* The batch loop has ended on a created playlist and no add-items call failed.
BatchesAllAdded ==
    /\ pc \in {"add_done", "returned"}
    /\ playlist.tag = "val"
    /\ \A k \in 1..Len(AddCalls) : AddCalls[k].outcome = "ok"

\* C15: when no batch fails, n ids are sent in exactly ceil(n/100) add-items
\* calls; each call carries at least 1 and at most 100 ids, every call but the
\* last exactly 100; the calls' items one after the other are track_ids; and
\* tracks_added is n. With no ids there is no call.
C15_BatchesCoverAll ==
    BatchesAllAdded =>
        LET calls == AddCalls
            n == Len(track_ids)
        IN  /\ Len(calls) = (n + 99) \div 100
            /\ \A k \in 1..Len(calls) :
                /\ Len(calls[k].items) \in 1..100
                /\ k < Len(calls) => Len(calls[k].items) = 100
                /\ calls[k].playlist_id = playlist.v.id
            /\ ItemsSent(calls) = track_ids
            /\ tracks_added = n
            /\ n = 0 => calls = <<>>

\* C15's example: 250 ids sent as batches of 100, 100 and 50.
C15_Witness ==
    /\ BatchesAllAdded
    /\ pc = "returned"
    /\ Len(track_ids) = 250
    /\ Len(AddCalls) = 3
    /\ Len(AddCalls[1].items) = 100
    /\ Len(AddCalls[2].items) = 100
    /\ Len(AddCalls[3].items) = 50
    /\ tracks_added = 250

\* No ids: the playlist is created and no add-items call is made.
C15_WitnessNoIds ==
    /\ BatchesAllAdded
    /\ pc = "returned"
    /\ track_ids = <<>>
    /\ AddCalls = <<>>

\* ---------------------------------------------------------------------------
\* C17
\* ---------------------------------------------------------------------------

\* main has returned: every TrackQuery was processed and filed, and the list
\* of not-found entries closes stdout.
RunCompleted ==
    /\ pc = "done"
    /\ idx = Len(tracks)
    /\ Len(history) = Len(tracks)
    /\ Len(found_ids) + Len(not_found) = Len(tracks)
    /\ NotFoundListed

\* C17: once the matching loop has started, whatever the input list and
\* whichever search, playlist-create and add-items calls raise, the run reaches
\* its normal end with every TrackQuery processed and every not-found entry
\* listed; no error aborts it.
C17_RunTerminates == <>RunCompleted

\* No error handled on the way leaves the run aborted.
C17_NeverAborted == pc # "crashed"

\* A completed run in which an add-items call raised an error that is not a
\* SpotifyException and a TrackQuery was not matched.
C17_Witness ==
    /\ RunCompleted
    /\ not_found # <<>>
    /\ \E k \in CallIdx("playlist_add_items") : sp_calls[k].outcome = "error"

\* A completed run whose playlist creation raised.
C17_WitnessCreationFailed ==
    /\ RunCompleted
    /\ CreationFailed

====
